---- MODULE Spec2Model ----
(***************************************************************************)
(* Payment lifecycle of the lightweight crypto payment processor.          *)
(*                                                                         *)
(* The ledger is the `payments` table (schema.sql), written by             *)
(*   - the payment monitor (paymentMonitorService.js): monitorLoop,        *)
(*     checkPendingPayments, checkSinglePayment, updatePaymentStatus,      *)
(*     cleanupExpiredPayments, forceCheckPayment;                          *)
(*   - the payment routes (paymentRoutes.js): POST /, PATCH /:id/cancel,   *)
(*     GET /:id/status;                                                    *)
(*   - the webhook routes (webhookRoutes.js): POST /webhooks/payment and   *)
(*     POST /webhooks/confirmation.                                        *)
(* Chain lookups go through blockchainService.checkPaymentStatus and its   *)
(* Redis snapshot cache.                                                   *)
(* The WebSocket service (websocketService.js) and the merchant            *)
(* registration (merchantRoutes.js) with verifyApiKey keep their own state. *)
(*                                                                         *)
(* Every handler is an async function: it is cut into one action per       *)
(* stretch of code between two awaits that matter to the ledger (read of   *)
(* the row, resolution of the chain snapshot, write of the row, callback). *)
(* A handler in flight is a record of `ops`.                               *)
(*                                                                         *)
(* Time is counted in units of 30 seconds.                                 *)
(***************************************************************************)
EXTENDS Integers, Sequences, FiniteSets, TLC

\* ------------------------------------------------------------------ bounds
MaxPayments == 1     \* payment requests created in a run
MaxTime == 3         \* the clock stops advancing here
MaxLoops == 1        \* monitorLoop executions alive at once
MaxRequests == 1     \* HTTP handlers (force check, status, webhook) in flight
BatchPayments == 2   \* pending payments the monitor finds when it starts
LoopSlots == 2       \* monitorLoop executions alive at once, monitor on its own
ListPayments == 51   \* rows of the ledger when only the listing of a tick runs
TickPayments == 11   \* rows of the ledger when a single tick runs
ConfirmRequests == 2 \* confirmation webhooks in flight, webhooks on their own
CreateRequests == 2  \* payment requests created, creation on its own
OwnerPayments == 2   \* payment requests created, cancel requests of two merchants
MaxRegistrations == 3 \* registration requests that reach the key generation
MaxClients == 2      \* WebSocket connections accepted in a run

\* ------------------------------------------------------- program constants
SnapshotTtl == 1     \* redis.setex(cacheKey, 30, ...): 30 s
CheckThrottle == 1   \* (Date.now() - lastCheck) < 30000
CheckKeyTtl == 2     \* redis.setex(cacheKey, 60, ...): 60 s
checkInterval == 1   \* this.checkInterval = 30 * 1000
batchSize == 10      \* const batchSize = 10
ListLimit == 50      \* .limit(50)
MinExpiresIn == 2    \* expires_in: Joi...min(60)

\* ------------------------------------------------------------- value sets
Currencies == {"BTC", "LTC", "ETH", "BNB", "SOL", "USDT", "USDC"}
\* currencies of the payment requests created in a run
ModelCurrencies == {"BTC", "USDT"}
Amounts == {1, 2}
Balances == 0..2
\* req.merchant.id of the authenticated requests
Merchants == {"m1", "m2"}
FinalStatuses == {"paid", "expired", "cancelled", "failed"}
Statuses == {"pending"} \cup FinalStatuses
\* SQL NULL / JavaScript undefined of a numeric column
Null == -1

VARIABLES
  payments,      \* the payments table: a sequence of rows, in created_at order
  now,           \* the clock
  snapCache,     \* Redis keys payment:<currency>:<address>
  lastCheck,     \* Redis keys payment_check:<id>
  isRunning,     \* PaymentMonitorService.isRunning
  loops,         \* the monitorLoop executions
  ops,           \* handlers in flight
  callbacks,     \* per payment: merchant callbacks attempted so far
  paidAtWrites,  \* per payment: writes of paid_at committed so far
  lookup,        \* the last call recorded with its inputs and its result
  failedCallbacks, \* per payment: callbacks that met an error or a non-2xx
  events,        \* per payment: status_change events logged by the monitor
  websocket,     \* WebSocketService: isRunning, clients, subscriptions, sockets
  merchants      \* the merchants table and the uuidv4() calls made so far

vars == <<payments, now, snapCache, lastCheck, isRunning, loops, ops,
          callbacks, paidAtWrites, lookup, failedCallbacks, events,
          websocket, merchants>>

Ids == 1..Len(payments)
Min(a, b) == IF a < b THEN a ELSE b

\* --------------------------------------------------------- walletService
\* deriveAddress(currency, masterKey, 0): the BIP44 coin type decides the
\* address; BNB, USDT and USDC reuse the Ethereum derivation.
deriveAddress(currency) ==
  CASE currency = "BTC" -> "m/44'/0'/0'/0/0"
    [] currency = "LTC" -> "m/44'/2'/0'/0/0"
    [] currency = "SOL" -> "m/44'/501'/0'/0/0"
    [] OTHER -> "m/44'/60'/0'/0/0"

\* generateAddress(currency) of the payment routes
generateAddress(currency) == deriveAddress(currency)

\* ------------------------------------------------------ blockchainService
requiredConfirmations(currency) ==
  CASE currency = "BTC" -> 3
    [] currency = "LTC" -> 6
    [] currency = "ETH" -> 12
    [] currency = "BNB" -> 15
    [] currency = "SOL" -> 1
    [] currency = "USDT" -> 12
    [] currency = "USDC" -> 12

\* number of endpoints the constructor configures for a currency
\* (this.endpoints); USDT and USDC are looked up on the Ethereum endpoints
ConfiguredProviders(currency) ==
  CASE currency = "BTC" -> 3
    [] currency = "LTC" -> 2
    [] currency = "ETH" -> 3
    [] currency = "BNB" -> 2
    [] currency = "SOL" -> 3
    [] OTHER -> 3

\* number of endpoints a currency's check function tries in turn
ProviderCount(currency) == IF currency = "BTC" THEN 2 ELSE 1

ErrorSnapshot == [status |-> "error", balance |-> Null, confirmations |-> Null]
\* no snapshot resolved yet
NoResult == [status |-> "none", balance |-> Null, confirmations |-> Null]

\* the snapshot a check<Currency>Payment function builds from a balance
BuildSnapshot(currency, balance, expectedAmount) ==
  [status |-> IF balance >= expectedAmount THEN "paid" ELSE "pending",
   balance |-> balance,
   confirmations |-> IF balance >= expectedAmount
                     THEN requiredConfirmations(currency) ELSE 0]

\* A provider response is "fail" (timeout, HTTP error, malformed body that
\* throws) or a balance.
ProviderResponses == {Null} \cup Balances

RECURSIVE FirstSuccess(_, _)
FirstSuccess(responses, i) ==
  IF i > Len(responses) THEN Null
  ELSE IF responses[i] # Null THEN responses[i]
  ELSE FirstSuccess(responses, i + 1)

\* check<Currency>Payment: the endpoints in order, the first that answers
\* wins; an exception when none is left.
checkCurrencyPayment(currency, responses, expectedAmount) ==
  LET b == FirstSuccess(responses, 1)
  IN IF b = Null THEN ErrorSnapshot
     ELSE BuildSnapshot(currency, b, expectedAmount)

CacheKeys == {<<c, deriveAddress(c)>> : c \in Currencies}
NoEntry == [snap |-> ErrorSnapshot, until |-> 0]
CacheHit(cache, key) == cache[key].until > now

\* What a call of checkPaymentStatus meets: whether redis.get and redis.setex
\* succeed, and the response of each endpoint the check function tries.
Envs(currency) ==
  [redisGet : BOOLEAN, redisSet : BOOLEAN,
   responses : [1..ProviderCount(currency) -> ProviderResponses]]

\* checkPaymentStatus with the error snapshot of its catch stored under the
\* cache key as well
checkPaymentStatusOn_CacheError(cache, currency, address, expectedAmount, env) ==
  LET key == <<currency, address>>
      s == checkCurrencyPayment(currency, env.responses, expectedAmount)
      failed == [cache EXCEPT ![key] = [snap |-> ErrorSnapshot,
                                        until |-> now + SnapshotTtl]]
  IN IF ~env.redisGet THEN <<ErrorSnapshot, cache>>
     ELSE IF CacheHit(cache, key) THEN <<cache[key].snap, cache>>
     ELSE IF s.status = "error" THEN <<ErrorSnapshot, failed>>
     ELSE IF ~env.redisSet THEN <<ErrorSnapshot, cache>>
     ELSE <<s, [cache EXCEPT ![key] = [snap |-> s, until |-> now + SnapshotTtl]]>>

\* checkPaymentStatus(currency, address, expectedAmount) in environment env:
\* <<snapshot returned, cache afterwards>>
checkPaymentStatusOn(cache, currency, address, expectedAmount, env) ==
  LET key == <<currency, address>>
      s == checkCurrencyPayment(currency, env.responses, expectedAmount)
  IN IF ~env.redisGet THEN <<ErrorSnapshot, cache>>   \* caught by the outer try
     ELSE IF CacheHit(cache, key) THEN <<cache[key].snap, cache>>
     ELSE IF s.status = "error" THEN <<ErrorSnapshot, cache>>
     ELSE IF ~env.redisSet THEN <<ErrorSnapshot, cache>>
     ELSE <<s, [cache EXCEPT ![key] = [snap |-> s, until |-> now + SnapshotTtl]]>>

\* checkPaymentStatus(currency, address, expectedAmount): the set of
\* <<snapshot, cache'>> it can produce from the cache `cache`.
checkPaymentStatus(cache, currency, address, expectedAmount) ==
  {checkPaymentStatusOn(cache, currency, address, expectedAmount, env) :
     env \in Envs(currency)}

\* ------------------------------------------------------------ the ledger
\* the row POST /api/v1/payments inserts for a request authenticated as
\* merchant: merchant_id is req.merchant.id
NewRowOf(merchant, currency, amount, expiresIn, callback) ==
  [merchant_id |-> merchant,
   status |-> "pending", currency |-> currency, amount |-> amount,
   address |-> generateAddress(currency), expires_at |-> now + expiresIn,
   callback_url |-> callback, confirmations |-> 0, tx_hash |-> "null",
   actual_amount |-> Null, paid_at |-> Null]

\* the requests of one merchant
NewRow(currency, amount, expiresIn, callback) ==
  NewRowOf("m1", currency, amount, expiresIn, callback)

\* the payments table without its CHECK constraint on status
StatusCheck_Any(status) == TRUE

\* CHECK (status IN ('pending','paid','expired','cancelled','failed'))
StatusCheck(status) == status \in Statuses

\* no direct call of the resolver yet
NoLookup == [fn |-> "none", currency |-> "none", expectedAmount |-> 0,
             responses |-> <<>>, redisGet |-> TRUE, redisSet |-> TRUE,
             hit |-> FALSE, snap |-> NoResult]

\* ------------------------------------------------------ WebSocketService
\* channels a client names in a subscribe or unsubscribe message
Channels == {"payment:1", "merchant:1"}
\* a message without a channel
NoChannel == ""
\* generateClientId: client_<Date.now()>_<random>, a new id per connection
ClientIds == 1..MaxClients

\* Map.prototype.delete
MapDelete(map, key) == [k \in DOMAIN map \ {key} |-> map[k]]

\* Map.prototype.set
MapSet(map, key, value) ==
  [k \in DOMAIN map \cup {key} |-> IF k = key THEN value ELSE map[k]]

\* the constructor: no server, no client, no subscription
WsInit ==
  [isRunning |-> FALSE, heartbeatInterval |-> FALSE,
   clients |-> <<>>, subscriptions |-> <<>>, sockets |-> <<>>,
   connections |-> 0]

\* ------------------------------------------------------- the merchants
\* an empty merchants table, no uuid drawn yet
NoMerchants == [rows |-> <<>>, uuids |-> 0]

Init ==
  /\ payments = <<>>
  /\ now = 0
  /\ snapCache = [k \in CacheKeys |-> NoEntry]
  /\ lastCheck = <<>>
  /\ isRunning = FALSE
  /\ loops = [l \in 1..MaxLoops |-> [pc |-> "off", queue |-> <<>>, wake |-> 0]]
  /\ ops = {}
  /\ callbacks = <<>>
  /\ paidAtWrites = <<>>
  /\ lookup = NoLookup
  /\ failedCallbacks = <<>>
  /\ events = <<>>
  /\ websocket = WsInit
  /\ merchants = NoMerchants

\* Redis deletes a key when its time to live is over
ExpireSnapshots(cache, t) ==
  [k \in DOMAIN cache |-> IF cache[k].until <= t THEN NoEntry ELSE cache[k]]
ExpireChecks(checks, t) ==
  [i \in DOMAIN checks |->
     IF checks[i] # Null /\ checks[i] + CheckKeyTtl <= t THEN Null ELSE checks[i]]

AdvanceClock ==
  /\ now < MaxTime
  /\ now' = now + 1
  /\ snapCache' = ExpireSnapshots(snapCache, now + 1)
  /\ lastCheck' = ExpireChecks(lastCheck, now + 1)
  /\ UNCHANGED <<merchants, websocket, lookup, failedCallbacks, events, payments, isRunning, loops, ops, callbacks, paidAtWrites>>

\* POST /api/v1/payments
CreatePayment ==
  /\ Len(payments) < MaxPayments
  /\ \E c \in ModelCurrencies, a \in Amounts, cb \in BOOLEAN :
       payments' = Append(payments, NewRow(c, a, MinExpiresIn, cb))
  /\ lastCheck' = Append(lastCheck, Null)
  /\ callbacks' = Append(callbacks, 0)
  /\ paidAtWrites' = Append(paidAtWrites, 0)
  /\ failedCallbacks' = Append(failedCallbacks, 0)
  /\ events' = Append(events, 0)
  /\ UNCHANGED <<merchants, websocket, lookup, now, snapCache, isRunning, loops, ops>>

\* ------------------------------------------------- handlers in flight
\* kind: "tick" (checkSinglePayment of a monitor tick), "force"
\* (forceCheckPayment), "status" (GET /:id/status), "webhook"
\* (POST /webhooks/payment). pconf and ptx are the confirmations and tx_hash
\* of the row as the handler read it, pstatus its status; res is the resolved
\* snapshot.

NewOp(kind, id, loop, pc) ==
  [kind |-> kind, id |-> id, loop |-> loop, pc |-> pc,
   pstatus |-> payments[id].status,
   pconf |-> payments[id].confirmations, ptx |-> payments[id].tx_hash,
   res |-> NoResult]

RequestOps == {o \in ops : o.loop = 0}
LoopOps(l) == {o \in ops : o.loop = l}

CanAccept(kind, id) ==
  /\ Cardinality(RequestOps) < MaxRequests
  /\ ~ \E o \in RequestOps : o.kind = kind /\ o.id = id

Finish(op) == ops' = ops \ {op}
Advance(op, pc, res) == ops' = (ops \ {op}) \cup {[op EXCEPT !.pc = pc, !.res = res]}

\* ------------------------------------------------ PaymentMonitorService
FreeLoops == {l \in DOMAIN loops : loops[l].pc = "off"}

start ==
  /\ ~isRunning
  /\ FreeLoops # {}
  /\ isRunning' = TRUE
  /\ LET l == CHOOSE x \in FreeLoops : \A y \in FreeLoops : x <= y
     IN loops' = [loops EXCEPT ![l] = [pc |-> "list", queue |-> <<>>, wake |-> 0]]
  /\ UNCHANGED <<merchants, websocket, lookup, failedCallbacks, events, payments, now, snapCache, lastCheck, ops, callbacks, paidAtWrites>>

stop ==
  /\ isRunning
  /\ isRunning' = FALSE
  /\ UNCHANGED <<merchants, websocket, lookup, failedCallbacks, events, payments, now, snapCache, lastCheck, loops, ops, callbacks,
                 paidAtWrites>>

\* .eq('status','pending').gt('expires_at', now).order('created_at').limit(50)
ListPending ==
  LET all == SelectSeq([i \in 1..Len(payments) |-> i],
                       LAMBDA i : /\ payments[i].status = "pending"
                                  /\ payments[i].expires_at > now)
  IN SubSeq(all, 1, Min(Len(all), ListLimit))

SeqToSet(s) == {s[i] : i \in 1..Len(s)}

\* a tick that hands every listed payment to checkSinglePayment at once
StartBatch_All(l, queue) ==
  /\ ops' = ops \cup SeqToSet(queue)
  /\ loops' = [loops EXCEPT ![l] = [pc |-> "batch", queue |-> <<>>, wake |-> 0]]

\* the next batch of a tick: payments.slice(i, i + batchSize), each handed to
\* checkSinglePayment, which runs up to its first await
StartBatch(l, queue) ==
  LET n == Min(Len(queue), batchSize)
  IN /\ ops' = ops \cup SeqToSet(SubSeq(queue, 1, n))
     /\ loops' = [loops EXCEPT ![l] =
                    [pc |-> "batch", queue |-> SubSeq(queue, n + 1, Len(queue)),
                     wake |-> 0]]

checkPendingPayments(l) ==
  /\ loops[l].pc = "list"
  /\ \/ \* testSupabaseConnection fails, or the select returns an error
        /\ loops' = [loops EXCEPT ![l].pc = "sweep"]
        /\ UNCHANGED ops
     \/ LET listed == ListPending
        IN IF listed = <<>>
           THEN /\ loops' = [loops EXCEPT ![l].pc = "sweep"]
                /\ UNCHANGED ops
           ELSE StartBatch(l, [i \in 1..Len(listed) |->
                                 NewOp("tick", listed[i], l, "resolve")])
  /\ UNCHANGED <<merchants, websocket, lookup, failedCallbacks, events, payments, now, snapCache, lastCheck, isRunning, callbacks,
                 paidAtWrites>>

\* await Promise.all(...) of a batch has settled
BatchDone(l) ==
  /\ loops[l].pc = "batch"
  /\ LoopOps(l) = {}
  /\ IF loops[l].queue = <<>>
     THEN /\ loops' = [loops EXCEPT ![l].pc = "sweep"]
          /\ UNCHANGED ops
     ELSE StartBatch(l, loops[l].queue)
  /\ UNCHANGED <<merchants, websocket, lookup, failedCallbacks, events, payments, now, snapCache, lastCheck, isRunning, callbacks,
                 paidAtWrites>>

\* cleanup_expired_payments() with the comparison of expires_at turned round
cleanup_expired_payments_Future(rows) ==
  [i \in 1..Len(rows) |->
     IF rows[i].status = "pending" /\ rows[i].expires_at > now
     THEN [rows[i] EXCEPT !.status = "expired"]
     ELSE rows[i]]

\* cleanup_expired_payments() as a DELETE of the overdue pending rows
cleanup_expired_payments_Delete(rows) ==
  SelectSeq(rows, LAMBDA r : ~(r.status = "pending" /\ r.expires_at < now))

\* schema.sql, cleanup_expired_payments()
cleanup_expired_payments(rows) ==
  [i \in 1..Len(rows) |->
     IF rows[i].status = "pending" /\ rows[i].expires_at < now
     THEN [rows[i] EXCEPT !.status = "expired"]
     ELSE rows[i]]

\* cleanupExpiredPayments(), then the sleep of the loop begins; rpcOk: the
\* rpc reached the database
cleanupExpiredPayments(l, rpcOk) ==
  /\ loops[l].pc = "sweep"
  /\ payments' = IF rpcOk THEN cleanup_expired_payments(payments) ELSE payments
  /\ loops' = [loops EXCEPT ![l] =
                 [pc |-> "sleep", queue |-> <<>>, wake |-> now + checkInterval]]
  /\ UNCHANGED <<merchants, websocket, lookup, failedCallbacks, events, now, snapCache, lastCheck, isRunning, ops, callbacks,
                 paidAtWrites>>

\* monitorLoop as while (true): the loop goes on whatever isRunning is
Wake_Forever(l) ==
  /\ loops[l].pc = "sleep"
  /\ (now >= loops[l].wake \/ now = MaxTime)
  /\ loops' = [loops EXCEPT ![l] = [pc |-> "list", queue |-> <<>>, wake |-> 0]]
  /\ UNCHANGED <<merchants, websocket, lookup, failedCallbacks, events, payments, now, snapCache,
                 lastCheck, isRunning, ops, callbacks, paidAtWrites>>

\* the sleep is over: while (this.isRunning). Once the clock has stopped at
\* MaxTime, time still passes and every sleep ends.
Wake(l) ==
  /\ loops[l].pc = "sleep"
  /\ (now >= loops[l].wake \/ now = MaxTime)
  /\ loops' = [loops EXCEPT ![l] = [pc |-> IF isRunning THEN "list" ELSE "off",
                                     queue |-> <<>>, wake |-> 0]]
  /\ UNCHANGED <<merchants, websocket, lookup, failedCallbacks, events, payments, now, snapCache, lastCheck, isRunning, ops, callbacks,
                 paidAtWrites>>

\* ------------------------------------------------------------ the writes
\* updateData with the observed balance written to amount as well
SnapshotUpdate_Amount(row, res) ==
  [row EXCEPT
     !.status = res.status,
     !.confirmations = IF res.confirmations = Null THEN 0 ELSE res.confirmations,
     !.actual_amount = IF res.balance = Null THEN @ ELSE res.balance,
     !.amount = IF res.balance = Null THEN @ ELSE res.balance,
     !.paid_at = IF res.status = "paid" THEN now ELSE @]

\* updateData of updatePaymentStatus and of GET /:id/status, applied to a row.
\* statusResult.tx_hash is undefined in every snapshot, so tx_hash is not
\* part of the request; balance is undefined in an error snapshot.
SnapshotUpdate(row, res) ==
  [row EXCEPT
     !.status = res.status,
     !.confirmations = IF res.confirmations = Null THEN 0 ELSE res.confirmations,
     !.actual_amount = IF res.balance = Null THEN @ ELSE res.balance,
     !.paid_at = IF res.status = "paid" THEN now ELSE @]

\* updateData of POST /webhooks/payment: `payment` is the row as read
WebhookUpdate(row, op, status, tx_hash, amount, confirmations) ==
  [row EXCEPT
     !.status = status,
     !.tx_hash = IF tx_hash = "undefined" THEN op.ptx ELSE tx_hash,
     !.confirmations = IF confirmations \in {Null, 0} THEN op.pconf
                       ELSE confirmations,
     !.paid_at = IF status = "paid" THEN now ELSE @,
     !.actual_amount = IF status = "paid"
                       THEN (IF amount \in {Null, 0} THEN row.amount ELSE amount)
                       ELSE @]

\* supabase.from('payments').update(updateData).eq('id', id): the filter of
\* the statement, evaluated on the stored row when the statement runs
UpdateFilter(row) == TRUE

\* The statement on row id: TRUE iff it returns no error. A row that fails
\* the CHECK constraint is rejected.
Commit(id, newRow) ==
  /\ StatusCheck(newRow.status)
  /\ payments' = IF UpdateFilter(payments[id])
                 THEN [payments EXCEPT ![id] = newRow]
                 ELSE payments
  /\ paidAtWrites' =
       IF UpdateFilter(payments[id]) /\ newRow.status = "paid"
       THEN [paidAtWrites EXCEPT ![id] = @ + 1]
       ELSE paidAtWrites

\* if (statusResult.status !== 'pending' &&
\*     statusResult.status !== payment.status)
StatusChanged(res, pstatus) == res.status # "pending" /\ res.status # pstatus

\* checkSinglePayment without its try/catch: the error rejects the
\* Promise.all of the batch and checkPendingPayments returns through its own
\* catch, on to the sweep
CatchCheckError_Rethrow(op) ==
  /\ Finish(op)
  /\ loops' = [loops EXCEPT ![op.loop] =
                 [pc |-> "sweep", queue |-> <<>>, wake |-> 0]]

\* catch (error) of checkSinglePayment: the error is logged and the promise
\* of the check resolves
CatchCheckError(op) ==
  /\ Finish(op)
  /\ UNCHANGED loops

\* checkSinglePayment(payment), up to the decision to update
checkSinglePayment(op) ==
  /\ op.kind = "tick" /\ op.pc = "resolve"
  /\ LET row == payments[op.id]
         last == lastCheck[op.id]
     IN \/ \* redis.get throws
           /\ CatchCheckError(op)
           /\ UNCHANGED <<snapCache, lastCheck>>
        \/ \* checked recently: skip
           /\ last # Null /\ now - last < CheckThrottle
           /\ Finish(op)
           /\ UNCHANGED <<snapCache, lastCheck, loops>>
        \/ /\ ~(last # Null /\ now - last < CheckThrottle)
           /\ \E r \in checkPaymentStatus(snapCache, row.currency, row.address,
                                          row.amount) :
                /\ snapCache' = r[2]
                /\ \/ \* redis.setex throws
                      /\ CatchCheckError(op)
                      /\ UNCHANGED lastCheck
                   \/ /\ lastCheck' = [lastCheck EXCEPT ![op.id] = now]
                      /\ IF StatusChanged(r[1], op.pstatus)
                         THEN Advance(op, "write", r[1])
                         ELSE Finish(op)
                      /\ UNCHANGED loops
  /\ UNCHANGED <<merchants, websocket, lookup, failedCallbacks, events, payments, now, isRunning, callbacks,
                 paidAtWrites>>

\* forceCheckPayment without its test of payment.status
IsPending_Always(row) == TRUE

\* forceCheckPayment goes on only if (payment.status === 'pending')
IsPending(row) == row.status = "pending"

\* forceCheckPayment(paymentId): the select of the row
forceCheckPayment(id) ==
  /\ CanAccept("force", id)
  /\ IsPending(payments[id])
  /\ ops' = ops \cup {NewOp("force", id, 0, "resolve")}
  /\ UNCHANGED <<merchants, websocket, lookup, failedCallbacks, events, payments, now, snapCache, lastCheck, isRunning, loops,
                 callbacks, paidAtWrites>>

\* forceCheckPayment: checkPaymentStatus and the decision to update
forceCheckResolve(op) ==
  /\ op.kind = "force" /\ op.pc = "resolve"
  /\ LET row == payments[op.id]
     IN \E r \in checkPaymentStatus(snapCache, row.currency, row.address,
                                    row.amount) :
          /\ snapCache' = r[2]
          /\ IF r[1].status # "pending"
             THEN Advance(op, "write", r[1])
             ELSE Finish(op)
  /\ UNCHANGED <<merchants, websocket, lookup, failedCallbacks, events, payments, now, lastCheck, isRunning, loops, callbacks,
                 paidAtWrites>>

\* updatePaymentStatus without the return in if (error): the event is logged
\* and the callback made although the update failed
AfterUpdateError_GoOn(op) ==
  /\ events' = [events EXCEPT ![op.id] = @ + 1]
  /\ IF op.res.status = "paid" /\ payments[op.id].callback_url
     THEN Advance(op, "notify", op.res)
     ELSE Finish(op)

\* if (error) { console.error(...); return; }
AfterUpdateError(op) ==
  /\ Finish(op)
  /\ UNCHANGED events

\* updatePaymentStatus(payment, statusResult): the update, the audit event,
\* and whether the callback follows
updatePaymentStatus(op) ==
  /\ op.kind \in {"tick", "force"} /\ op.pc = "write"
  /\ \/ \* the update returns an error (persistence unavailable)
        /\ AfterUpdateError(op)
        /\ UNCHANGED <<payments, paidAtWrites>>
     \/ LET newRow == SnapshotUpdate(payments[op.id], op.res)
        IN IF StatusCheck(newRow.status)
           THEN /\ Commit(op.id, newRow)
                /\ events' = [events EXCEPT ![op.id] = @ + 1]
                /\ IF op.res.status = "paid" /\ payments[op.id].callback_url
                   THEN Advance(op, "notify", op.res)
                   ELSE Finish(op)
           ELSE \* rejected by the CHECK constraint
                /\ AfterUpdateError(op)
                /\ UNCHANGED <<payments, paidAtWrites>>
  /\ UNCHANGED <<merchants, websocket, lookup, failedCallbacks, now, snapCache, lastCheck, isRunning, loops, callbacks>>

\* The fetch of the callback: a 2xx response, another response, or an error
\* (endpoint unreachable).
CallbackOutcomes == {"ok", "not ok", "error"}

\* the payments table after a callback with a rollback of the paid row when
\* the delivery fails
AfterCallback_Rollback(rows, id, outcome) ==
  IF outcome = "ok" THEN rows
  ELSE [rows EXCEPT ![id].status = "pending", ![id].paid_at = Null]

\* The payments table after the callback of payment id: both handlers only
\* log a failed delivery (the monitor in triggerPaymentCallback, the webhook
\* route in its catch around triggerCallback).
AfterCallback(rows, id, outcome) == rows

\* triggerPaymentCallback / triggerCallback: the POST to callback_url is made;
\* the handler then returns normally whatever the outcome
triggerPaymentCallback(op) ==
  /\ op.pc = "notify"
  /\ \E outcome \in CallbackOutcomes :
       /\ payments' = AfterCallback(payments, op.id, outcome)
       /\ failedCallbacks' = IF outcome = "ok" THEN failedCallbacks
                             ELSE [failedCallbacks EXCEPT ![op.id] = @ + 1]
  /\ callbacks' = [callbacks EXCEPT ![op.id] = @ + 1]
  /\ Finish(op)
  /\ UNCHANGED <<merchants, websocket, lookup, events, now, snapCache, lastCheck, isRunning, loops,
                 paidAtWrites>>

\* GET /:id/status: the select of the row
statusRoute(id) ==
  /\ CanAccept("status", id)
  /\ payments[id].status \notin FinalStatuses
  /\ ops' = ops \cup {NewOp("status", id, 0, "resolve")}
  /\ UNCHANGED <<merchants, websocket, lookup, failedCallbacks, events, payments, now, snapCache, lastCheck, isRunning, loops,
                 callbacks, paidAtWrites>>

\* GET /:id/status: checkPaymentStatus and the decision to update
statusRouteResolve(op) ==
  /\ op.kind = "status" /\ op.pc = "resolve"
  /\ LET row == payments[op.id]
     IN \E r \in checkPaymentStatus(snapCache, row.currency, row.address,
                                    row.amount) :
          /\ snapCache' = r[2]
          /\ IF StatusChanged(r[1], op.pstatus)
             THEN Advance(op, "write", r[1])
             ELSE Finish(op)
  /\ UNCHANGED <<merchants, websocket, lookup, failedCallbacks, events, payments, now, lastCheck, isRunning, loops, callbacks,
                 paidAtWrites>>

\* GET /:id/status: the update; no callback follows
statusRouteUpdate(op) ==
  /\ op.kind = "status" /\ op.pc = "write"
  /\ \/ /\ UNCHANGED <<payments, paidAtWrites>>     \* updateError
     \/ LET newRow == SnapshotUpdate(payments[op.id], op.res)
        IN IF StatusCheck(newRow.status)
           THEN Commit(op.id, newRow)
           ELSE UNCHANGED <<payments, paidAtWrites>>
  /\ Finish(op)
  /\ UNCHANGED <<merchants, websocket, lookup, failedCallbacks, events, now, snapCache, lastCheck, isRunning, loops, callbacks>>

\* POST /webhooks/payment: the select of the row and the final-status test
webhookPayment(id) ==
  /\ CanAccept("webhook", id)
  /\ payments[id].status \notin FinalStatuses
  /\ ops' = ops \cup {NewOp("webhook", id, 0, "write")}
  /\ UNCHANGED <<merchants, websocket, lookup, failedCallbacks, events, payments, now, snapCache, lastCheck, isRunning, loops,
                 callbacks, paidAtWrites>>

WebhookTxHashes == {"undefined", "0xw"}
WebhookConfirmations == {Null, 1}
WebhookAmounts == {Null, 1}

\* POST /webhooks/payment: the update and whether the callback follows. The
\* body of the request is drawn here, where it is first used.
webhookPaymentUpdate(op) ==
  /\ op.kind = "webhook" /\ op.pc = "write"
  /\ \/ /\ Finish(op)                               \* updateError
        /\ UNCHANGED <<payments, paidAtWrites>>
     \/ \E status \in FinalStatuses, tx_hash \in WebhookTxHashes,
           amount \in WebhookAmounts, confirmations \in WebhookConfirmations :
          /\ Commit(op.id, WebhookUpdate(payments[op.id], op, status, tx_hash,
                                         amount, confirmations))
          /\ IF payments[op.id].callback_url /\ status = "paid"
             THEN Advance(op, "notify", NoResult)
             ELSE Finish(op)
  /\ UNCHANGED <<merchants, websocket, lookup, failedCallbacks, events, now, snapCache, lastCheck, isRunning, loops, callbacks>>

\* req.body.confirmations of POST /webhooks/confirmation (0 is refused: 400)
ConfirmationCounts == {1, 2}

\* POST /webhooks/confirmation: the select of the row. The body is part of
\* the request: its confirmations are kept in res, slots is the number of
\* such requests that may be in flight.
webhookConfirmation(id, slots) ==
  /\ Cardinality({o \in RequestOps : o.kind = "confirmation"}) < slots
  /\ Cardinality(RequestOps) < slots
  /\ \E c \in ConfirmationCounts :
       ops' = ops \cup {[NewOp("confirmation", id, 0, "write") EXCEPT
                           !.res = [status |-> "none", balance |-> Null,
                                    confirmations |-> c]]}
  /\ UNCHANGED <<merchants, websocket, lookup, failedCallbacks, events, payments, now, snapCache, lastCheck,
                 isRunning, loops, callbacks, paidAtWrites>>

\* update({confirmations, tx_hash: tx_hash || payment.tx_hash, updated_at})
ConfirmationUpdate(row, op, tx_hash) ==
  [row EXCEPT
     !.confirmations = op.res.confirmations,
     !.tx_hash = IF tx_hash = "undefined" THEN op.ptx ELSE tx_hash]

\* POST /webhooks/confirmation: if (confirmations > (payment.confirmations
\* || 0)), the update, filtered on id
webhookConfirmationUpdate(op) ==
  /\ op.kind = "confirmation" /\ op.pc = "write"
  /\ IF op.res.confirmations > op.pconf
     THEN \/ UNCHANGED payments                     \* updateError
          \/ \E tx_hash \in {"undefined", "0xw"} :
               payments' = [payments EXCEPT ![op.id] =
                              ConfirmationUpdate(payments[op.id], op, tx_hash)]
     ELSE UNCHANGED payments                        \* 'No update needed'
  /\ Finish(op)
  /\ UNCHANGED <<merchants, websocket, lookup, failedCallbacks, events, now, snapCache, lastCheck, isRunning,
                 loops, callbacks, paidAtWrites>>

\* the cancel statement without .eq('status', 'pending')
CancelFilter_Any(row) == TRUE

\* .eq('status', 'pending') of the cancel statement
CancelFilter(row) == row.status = "pending"

\* PATCH /:id/cancel: one statement, filtered on status = 'pending'
cancelPayment(id) ==
  /\ CancelFilter(payments[id])
  /\ payments' = [payments EXCEPT ![id].status = "cancelled"]
  /\ UNCHANGED <<merchants, websocket, lookup, failedCallbacks, events, now, snapCache, lastCheck, isRunning, loops, ops, callbacks,
                 paidAtWrites>>

\* the cancel statement without .eq('merchant_id', req.merchant.id)
OwnerFilter_Any(row, merchant) == TRUE

\* .eq('merchant_id', req.merchant.id) of the cancel statement
OwnerFilter(row, merchant) == row.merchant_id = merchant

\* PATCH /:id/cancel of a request authenticated as merchant, with its
\* response: 200 when the statement returns the row, 404 when it returns no
\* row (PGRST116), 500 on another error
cancelRequest(merchant, id) ==
  /\ \E dbOk \in BOOLEAN :
       LET row == payments[id]
           hit == dbOk /\ OwnerFilter(row, merchant) /\ CancelFilter(row)
       IN /\ payments' = IF hit
                         THEN [payments EXCEPT ![id].status = "cancelled"]
                         ELSE payments
          /\ lookup' = [fn |-> "cancel", id |-> id, before |-> row,
                        merchant |-> merchant, dbOk |-> dbOk,
                        response |-> IF ~dbOk THEN 500
                                     ELSE IF hit THEN 200 ELSE 404]
  /\ UNCHANGED <<merchants, websocket, failedCallbacks, events, now, snapCache, lastCheck, isRunning, loops,
                 ops, callbacks, paidAtWrites>>

\* PATCH /:id/cancel sent by the merchant of the payment
cancelRoute(id) == cancelRequest(payments[id].merchant_id, id)

\* a step of handler op
OpStep(op) ==
  \/ checkSinglePayment(op)
  \/ updatePaymentStatus(op)
  \/ triggerPaymentCallback(op)
  \/ forceCheckResolve(op)
  \/ statusRouteResolve(op)
  \/ statusRouteUpdate(op)
  \/ webhookPaymentUpdate(op)

Next ==
  \/ AdvanceClock
  \/ CreatePayment
  \/ start
  \/ stop
  \/ \E l \in 1..MaxLoops : checkPendingPayments(l)
  \/ \E l \in 1..MaxLoops : BatchDone(l)
  \/ \E l \in 1..MaxLoops, rpcOk \in BOOLEAN : cleanupExpiredPayments(l, rpcOk)
  \/ \E l \in 1..MaxLoops : Wake(l)
  \/ \E op \in ops : checkSinglePayment(op)
  \/ \E op \in ops : updatePaymentStatus(op)
  \/ \E op \in ops : triggerPaymentCallback(op)
  \/ \E id \in Ids : forceCheckPayment(id)
  \/ \E op \in ops : forceCheckResolve(op)
  \/ \E id \in Ids : statusRoute(id)
  \/ \E op \in ops : statusRouteResolve(op)
  \/ \E op \in ops : statusRouteUpdate(op)
  \/ \E id \in Ids : webhookPayment(id)
  \/ \E op \in ops : webhookPaymentUpdate(op)
  \/ \E id \in Ids : cancelPayment(id)

Spec == Init /\ [][Next]_vars

\* Handlers of one payment run one after the other: a handler starts on a
\* payment only when none is in flight for it.
OpKey(o) == <<o.kind, o.id, o.loop>>
NextSeq ==
  /\ Next
  /\ \A o \in ops' :
       OpKey(o) \notin {OpKey(x) : x \in ops} => ~ \E x \in ops : x.id = o.id

SpecSeq == Init /\ [][NextSeq]_vars

\* The scheduling of the event loop: the clock advances, every await of the
\* monitor loop and of its checks settles, and the database is reachable
\* again and again.
Fairness ==
  /\ WF_vars(AdvanceClock)
  /\ \A l \in 1..MaxLoops :
       /\ WF_vars(checkPendingPayments(l))
       /\ WF_vars(BatchDone(l))
       /\ WF_vars(Wake(l))
       /\ WF_vars(\E op \in LoopOps(l) : OpStep(op))
       /\ WF_vars(\E rpcOk \in BOOLEAN : cleanupExpiredPayments(l, rpcOk))
       /\ SF_vars(cleanupExpiredPayments(l, TRUE))

LiveSpec == Init /\ [][Next]_vars /\ Fairness

\* ------------------------------------------------- the monitor on its own
\* The monitor starts on a ledger that already holds pending payments, all
\* created at time 0; no route is called.
BatchInit ==
  /\ now = 0
  /\ payments \in [1..BatchPayments ->
                     {NewRow(c, a, MinExpiresIn, TRUE) :
                        c \in ModelCurrencies, a \in Amounts}]
  /\ snapCache = [k \in CacheKeys |-> NoEntry]
  /\ lastCheck = [i \in 1..BatchPayments |-> Null]
  /\ isRunning = FALSE
  /\ loops = [l \in 1..MaxLoops |-> [pc |-> "off", queue |-> <<>>, wake |-> 0]]
  /\ ops = {}
  /\ callbacks = [i \in 1..BatchPayments |-> 0]
  /\ paidAtWrites = [i \in 1..BatchPayments |-> 0]
  /\ lookup = NoLookup
  /\ failedCallbacks = [i \in 1..BatchPayments |-> 0]
  /\ events = [i \in 1..BatchPayments |-> 0]
  /\ websocket = WsInit
  /\ merchants = NoMerchants

BatchNext ==
  \/ AdvanceClock
  \/ start
  \/ stop
  \/ \E l \in 1..MaxLoops : checkPendingPayments(l)
  \/ \E l \in 1..MaxLoops : BatchDone(l)
  \/ \E l \in 1..MaxLoops, rpcOk \in BOOLEAN : cleanupExpiredPayments(l, rpcOk)
  \/ \E l \in 1..MaxLoops : Wake(l)
  \/ \E op \in ops : checkSinglePayment(op)
  \/ \E op \in ops : updatePaymentStatus(op)
  \/ \E op \in ops : triggerPaymentCallback(op)

BatchSpec == BatchInit /\ [][BatchNext]_vars

\* the monitor on its own, every await of the loop and of its checks
\* returning in the end
StopSpec == BatchInit /\ [][BatchNext]_vars /\ Fairness

\* The monitor on its own when the calls made for the first payment (provider,
\* ledger, callback) may never return: every other await settles.
HangFairness ==
  /\ WF_vars(AdvanceClock)
  /\ WF_vars(\E op \in ops : op.id # 1 /\ OpStep(op))
  /\ \A l \in 1..MaxLoops :
       /\ WF_vars(checkPendingPayments(l))
       /\ WF_vars(BatchDone(l))
       /\ WF_vars(Wake(l))
       /\ WF_vars(\E rpcOk \in BOOLEAN : cleanupExpiredPayments(l, rpcOk))
       /\ SF_vars(cleanupExpiredPayments(l, TRUE))

HangSpec == BatchInit /\ [][BatchNext]_vars /\ HangFairness

\* ------------------------------------------------- the listing on its own
\* A ledger of n pending payments created at time 0, the first k of them
\* with the shortest expiry, the others outliving the run.
Ledger(n, k) ==
  [i \in 1..n |->
     NewRow("BTC", 1, IF i <= k THEN MinExpiresIn ELSE MaxTime + 1, FALSE)]

ListInit ==
  /\ now = 0
  /\ \E n \in 0..ListPayments : \E k \in 0..Min(n, 2) :
       /\ payments = Ledger(n, k)
       /\ lastCheck = [i \in 1..n |-> Null]
       /\ callbacks = [i \in 1..n |-> 0]
       /\ paidAtWrites = [i \in 1..n |-> 0]
       /\ failedCallbacks = [i \in 1..n |-> 0]
       /\ events = [i \in 1..n |-> 0]
       /\ websocket = WsInit
       /\ merchants = NoMerchants
  /\ snapCache = [k \in CacheKeys |-> NoEntry]
  /\ isRunning = FALSE
  /\ loops = [l \in 1..MaxLoops |-> [pc |-> "off", queue |-> <<>>, wake |-> 0]]
  /\ ops = {}
  /\ lookup = NoLookup

\* the monitor up to the start of the first batch of a tick
ListNext ==
  \/ AdvanceClock
  \/ start
  \/ \E l \in 1..MaxLoops : checkPendingPayments(l)

ListSpec == ListInit /\ [][ListNext]_vars

\* ------------------------------------------------- one tick on its own
\* One tick over a ledger of TickPayments pending payments. The checks of a
\* batch are started in list order; here they also settle in list order.
TickInit ==
  /\ now = 0
  /\ payments = Ledger(TickPayments, 0)
  /\ lastCheck = [i \in 1..TickPayments |-> Null]
  /\ callbacks = [i \in 1..TickPayments |-> 0]
  /\ paidAtWrites = [i \in 1..TickPayments |-> 0]
  /\ failedCallbacks = [i \in 1..TickPayments |-> 0]
  /\ events = [i \in 1..TickPayments |-> 0]
  /\ websocket = WsInit
  /\ merchants = NoMerchants
  /\ snapCache = [k \in CacheKeys |-> NoEntry]
  /\ isRunning = FALSE
  /\ loops = [l \in 1..MaxLoops |-> [pc |-> "off", queue |-> <<>>, wake |-> 0]]
  /\ ops = {}
  /\ lookup = NoLookup

InOrder(op) == \A o \in ops : o.id >= op.id

TickNext ==
  \/ start
  \/ \E l \in 1..MaxLoops : checkPendingPayments(l)
  \/ \E l \in 1..MaxLoops : BatchDone(l)
  \/ \E l \in 1..MaxLoops, rpcOk \in BOOLEAN : cleanupExpiredPayments(l, rpcOk)
  \/ \E op \in ops : InOrder(op) /\ checkSinglePayment(op)
  \/ \E op \in ops : InOrder(op) /\ updatePaymentStatus(op)

TickSpec == TickInit /\ [][TickNext]_vars

\* ------------------------------------------------- the webhooks on their own
\* One payment, payment webhooks and up to ConfirmRequests confirmation
\* webhooks in flight at once.
ConfirmNext ==
  \/ CreatePayment
  \/ \E id \in Ids : webhookPayment(id)
  \/ \E op \in ops : webhookPaymentUpdate(op)
  \/ \E op \in ops : triggerPaymentCallback(op)
  \/ \E id \in Ids : webhookConfirmation(id, ConfirmRequests)
  \/ \E op \in ops : webhookConfirmationUpdate(op)

ConfirmSpec == Init /\ [][ConfirmNext]_vars

\* ------------------------------------------------- every writer, in turn
\* Every operation that writes the ledger, the confirmation webhook
\* included; the handlers of a payment run one after the other.
FrameNext ==
  /\ \/ Next
     \/ \E id \in Ids : webhookConfirmation(id, MaxRequests)
     \/ \E op \in ops : webhookConfirmationUpdate(op)
  /\ \A o \in ops' :
       OpKey(o) \notin {OpKey(x) : x \in ops} => ~ \E x \in ops : x.id = o.id

FrameSpec == Init /\ [][FrameNext]_vars

\* ------------------------------------------------- the cancel route
\* One payment, taken to any status by the payment webhook, and cancel
\* requests with their responses.
CancelNext ==
  \/ AdvanceClock
  \/ CreatePayment
  \/ \E id \in Ids : webhookPayment(id)
  \/ \E op \in ops : webhookPaymentUpdate(op)
  \/ \E op \in ops : triggerPaymentCallback(op)
  \/ \E id \in Ids : cancelRoute(id)

CancelSpec == Init /\ [][CancelNext]_vars

\* --------------------------------------------- start() and stop() on their own
\* start() and stop() called at any time on an empty ledger; every call of
\* start() that passes the isRunning test begins an execution of monitorLoop.
LoopInit ==
  /\ payments = <<>>
  /\ now = 0
  /\ snapCache = [k \in CacheKeys |-> NoEntry]
  /\ lastCheck = <<>>
  /\ isRunning = FALSE
  /\ loops = [l \in 1..LoopSlots |-> [pc |-> "off", queue |-> <<>>, wake |-> 0]]
  /\ ops = {}
  /\ callbacks = <<>>
  /\ paidAtWrites = <<>>
  /\ lookup = NoLookup
  /\ failedCallbacks = <<>>
  /\ events = <<>>
  /\ websocket = WsInit
  /\ merchants = NoMerchants

LoopNext ==
  \/ AdvanceClock
  \/ start
  \/ stop
  \/ \E l \in 1..LoopSlots : checkPendingPayments(l)
  \/ \E l \in 1..LoopSlots, rpcOk \in BOOLEAN : cleanupExpiredPayments(l, rpcOk)
  \/ \E l \in 1..LoopSlots : Wake(l)

LoopSpec == LoopInit /\ [][LoopNext]_vars

\* POST /api/payments with any supported currency: the address is
\* generateAddress(currency) and the row is inserted as it stands (the table
\* has no uniqueness constraint on address)
createPayment(currency, amount, callback) ==
  /\ Len(payments) < CreateRequests
  /\ payments' = Append(payments, NewRow(currency, amount, MinExpiresIn,
                                         callback))
  /\ lastCheck' = Append(lastCheck, Null)
  /\ callbacks' = Append(callbacks, 0)
  /\ paidAtWrites' = Append(paidAtWrites, 0)
  /\ failedCallbacks' = Append(failedCallbacks, 0)
  /\ events' = Append(events, 0)
  /\ UNCHANGED <<merchants, websocket, lookup, now, snapCache, isRunning, loops, ops>>

\* payment requests only, over every supported currency
CreateNext ==
  \/ AdvanceClock
  \/ \E c \in Currencies, a \in Amounts, cb \in BOOLEAN : createPayment(c, a, cb)

CreateSpec == Init /\ [][CreateNext]_vars

\* ------------------------------------------------- the resolver on its own
\* A direct call of check<Currency>Payment(address, expectedAmount);
\* responses[i] is what the i-th configured endpoint answers when asked.
checkCurrency ==
  /\ \E c \in Currencies, a \in Amounts :
       \E r \in [1..ConfiguredProviders(c) -> ProviderResponses] :
       lookup' = [fn |-> "checkCurrencyPayment", currency |-> c,
                  expectedAmount |-> a, responses |-> r,
                  redisGet |-> TRUE, redisSet |-> TRUE, hit |-> FALSE,
                  snap |-> checkCurrencyPayment(
                             c, SubSeq(r, 1, ProviderCount(c)), a)]
  /\ UNCHANGED <<merchants, websocket, payments, now, snapCache, lastCheck, isRunning, loops, ops,
                 callbacks, paidAtWrites, failedCallbacks, events>>

\* A direct call of checkPaymentStatus(currency, address, expectedAmount)
lookupPaymentStatus ==
  /\ \E c \in ModelCurrencies, a \in Amounts :
       \E env \in Envs(c) :
         LET r == checkPaymentStatusOn(snapCache, c, deriveAddress(c), a, env)
         IN /\ snapCache' = r[2]
            /\ lookup' = [fn |-> "checkPaymentStatus", currency |-> c,
                          expectedAmount |-> a, responses |-> env.responses,
                          redisGet |-> env.redisGet, redisSet |-> env.redisSet,
                          hit |-> env.redisGet
                                  /\ CacheHit(snapCache, <<c, deriveAddress(c)>>),
                          snap |-> r[1]]
  /\ UNCHANGED <<merchants, websocket, payments, now, lastCheck, isRunning, loops, ops, callbacks,
                 paidAtWrites, failedCallbacks, events>>

\* What an endpoint can answer besides a balance: a body whose balance field
\* is missing or not a number (data.balance / 100000000 is then NaN, and NaN
\* compares false with every amount, as NaN does here being below every
\* amount), and a negative balance.
NaN == -2
NegativeBalance == -3
MalformedBalances == {NaN, NegativeBalance}

\* A direct call of a check<Currency>Payment function whose endpoints may
\* also answer with a malformed balance
checkCurrencyRaw ==
  /\ \E c \in Currencies, a \in Amounts :
       \E r \in [1..ProviderCount(c) ->
                   ProviderResponses \cup MalformedBalances] :
       lookup' = [fn |-> "checkCurrencyPayment", currency |-> c,
                  expectedAmount |-> a, responses |-> r,
                  redisGet |-> TRUE, redisSet |-> TRUE, hit |-> FALSE,
                  snap |-> checkCurrencyPayment(c, r, a)]
  /\ UNCHANGED <<merchants, websocket, payments, now, snapCache, lastCheck, isRunning, loops, ops,
                 callbacks, paidAtWrites, failedCallbacks, events>>

\* the check functions called on their own, malformed answers included
RawNext ==
  \/ AdvanceClock
  \/ checkCurrencyRaw

RawSpec == Init /\ [][RawNext]_vars

\* the check functions called on their own
CheckNext ==
  \/ AdvanceClock
  \/ checkCurrency

CheckSpec == Init /\ [][CheckNext]_vars

\* checkPaymentStatus called on its own, with its cache
ResolverNext ==
  \/ AdvanceClock
  \/ lookupPaymentStatus

ResolverSpec == Init /\ [][ResolverNext]_vars

\* ------------------------------------------------------------- properties
\* the step is one of handler op: it has left ops, or moved on
Stepped(op) == op \notin ops'

\* C1: once the stored status of a payment is paid, expired, cancelled or
\* failed, no step of any writer changes it again.
C1_TerminalMonotone ==
  [][\A id \in Ids :
       payments[id].status \in FinalStatuses
         => payments'[id].status = payments[id].status]_vars

\* C2: the merchant callback of a payment is attempted at most once, whatever
\* the interleaving of ticks, forced checks and payment webhooks.
C2_AtMostOneCallback == \A id \in Ids : callbacks[id] <= 1

\* C3: a check (tick or forced) that applies its update to a payment already
\* cancelled leaves it cancelled and sends no callback; and the cancel route
\* (a step that changes the row and no handler) does not move a paid payment
\* to cancelled.
C3_CancelRace ==
  [][/\ \A op \in ops :
          (/\ op.kind \in {"tick", "force"} /\ op.pc = "write"
           /\ payments[op.id].status = "cancelled"
           /\ Stepped(op))
          => /\ payments'[op.id].status = "cancelled"
             /\ ~ \E o \in ops' : o.id = op.id /\ o.kind = op.kind
                                  /\ o.loop = op.loop /\ o.pc = "notify"
     /\ \A id \in Ids :
          (payments[id].status = "paid" /\ ops' = ops)
          => payments'[id].status = "paid"]_vars

\* C4: no step moves a payment to paid with an observed amount that covers
\* the requested amount but fewer confirmations than its currency requires.
C4_ConfirmationGating ==
  [][\A id \in Ids :
       (/\ payments[id].status # "paid"
        /\ payments'[id].status = "paid"
        /\ payments'[id].actual_amount >= payments[id].amount)
       => payments'[id].confirmations
            >= requiredConfirmations(payments[id].currency)]_vars

\* C5: paid_at is set if and only if the stored status is paid.
C5_PaidAtIffPaid ==
  \A id \in Ids : (payments[id].paid_at # Null) <=> (payments[id].status = "paid")

\* C6: paid_at is written at most once in the life of a payment.
C6_PaidAtWrittenOnce == \A id \in Ids : paidAtWrites[id] <= 1

\* C7: a step of a tick's check on a payment whose stored status is final
\* changes none of status, confirmations, actual_amount, tx_hash.
C7_TickFrame ==
  [][\A op \in ops :
       (/\ op.kind = "tick"
        /\ payments[op.id].status \in FinalStatuses
        /\ Stepped(op))
       => /\ payments'[op.id].status = payments[op.id].status
          /\ payments'[op.id].confirmations = payments[op.id].confirmations
          /\ payments'[op.id].actual_amount = payments[op.id].actual_amount
          /\ payments'[op.id].tx_hash = payments[op.id].tx_hash]_vars
Overdue(id) ==
  /\ id \in Ids
  /\ payments[id].status = "pending"
  /\ payments[id].expires_at < now

C10_ErrorIsNoInformation ==
  [][\A op \in ops :
       (op.res.status = "error" /\ Stepped(op))
       => /\ payments'[op.id] = payments[op.id]
          /\ callbacks' = callbacks
          /\ ~ \E o \in ops' : o.id = op.id /\ o.pc = "notify" /\ o \notin ops
          /\ isRunning' = isRunning /\ loops' = loops]_vars

\* a tick's check has ended on an error snapshot (the check is recorded in
\* payment_check:<id>, nothing was cached) and the payment is still pending
C10_Witness ==
  \E id \in Ids :
    /\ payments[id].status = "pending"
    /\ lastCheck[id] = now
    /\ ~CacheHit(snapCache, <<payments[id].currency, payments[id].address>>)
    /\ ops = {}

\* C11: for every currency, when the first configured endpoint fails and the
\* second answers, the check function returns the snapshot built from the
\* second endpoint's balance (so paid when that balance covers the amount).
C11_Failover ==
  (/\ lookup.fn = "checkCurrencyPayment"
   /\ lookup.responses[1] = Null
   /\ lookup.responses[2] # Null)
  => lookup.snap = BuildSnapshot(lookup.currency, lookup.responses[2],
                                 lookup.expectedAmount)

\* C12: whichever handler moves the stored status of a payment that has a
\* callback_url from pending to paid goes on to attempt the callback.
C12_NotifyOnPaid ==
  [][\A id \in Ids :
       (/\ payments[id].status = "pending"
        /\ payments'[id].status = "paid"
        /\ payments[id].callback_url)
       => \E o \in ops' \ ops : o.id = id /\ o.pc = "notify"]_vars

\* C13: a handler goes on to the callback only in the step that moves the
\* stored status of its payment from pending to paid.
C13_CallbackOnlyOnTransition ==
  [][\A o \in ops' \ ops :
       o.pc = "notify"
       => /\ payments[o.id].status = "pending"
          /\ payments'[o.id].status = "paid"]_vars

\* C14: the callback step of a handler, whatever the outcome of the delivery,
\* leaves the payments table as it is, ends the handler and leaves the
\* monitor loop where it was.
C14_CallbackFailureKeepsPaid ==
  [][\A op \in ops :
       (op.pc = "notify" /\ Stepped(op))
       => /\ payments' = payments
          /\ ~ \E o \in ops' : OpKey(o) = OpKey(op)
          /\ loops' = loops /\ isRunning' = isRunning]_vars

\* a callback has failed and its payment is still paid, the handler gone
C14_Witness ==
  \E id \in Ids :
    /\ failedCallbacks[id] >= 1
    /\ payments[id].status = "paid"
    /\ payments[id].paid_at # Null
    /\ ops = {}

C16_CacheOutageIsMiss ==
  (/\ lookup.fn = "checkPaymentStatus"
   /\ (~lookup.redisGet \/ (~lookup.hit /\ ~lookup.redisSet)))
  => lookup.snap = checkCurrencyPayment(lookup.currency, lookup.responses,
                                        lookup.expectedAmount)

\* C17: a snapshot returned by checkPaymentStatus that is not an error
\* snapshot has status paid if and only if its balance covers the
\* expectedAmount of the call, whether it comes from the cache or from an
\* endpoint.
C17_PaidIffBalanceCovers ==
  (lookup.fn = "checkPaymentStatus" /\ lookup.snap.status # "error")
  => (lookup.snap.status = "paid"
        <=> lookup.snap.balance >= lookup.expectedAmount)

\* C18: a step of a tick's check on a pending, unexpired payment moves it to
\* paid only when the resolved snapshot's balance covers the amount; and
\* when the snapshot has the balance and the confirmations and the update
\* goes through, the step makes the payment paid with actual_amount equal to
\* the snapshot's balance and goes on to the callback.
C18_HappyPath ==
  [][\A op \in ops :
       (/\ op.kind = "tick" /\ Stepped(op)
        /\ payments[op.id].status = "pending"
        /\ payments[op.id].expires_at > now)
       => /\ payments'[op.id].status = "paid"
               => op.res.balance >= payments[op.id].amount
          /\ (/\ op.pc = "write"
              /\ op.res.balance >= payments[op.id].amount
              /\ op.res.confirmations
                   >= requiredConfirmations(payments[op.id].currency)
              /\ payments' # payments)
             => /\ payments'[op.id].status = "paid"
                /\ payments'[op.id].actual_amount = op.res.balance
                /\ payments[op.id].callback_url
                     => \E o \in ops' \ ops : o.id = op.id /\ o.pc = "notify"]_vars

\* the monitorLoop executions that are inside checkPendingPayments
TicksInProgress == {l \in DOMAIN loops : loops[l].pc \in {"list", "batch"}}

\* C19: whatever the calls of start() and stop(), at most one execution of
\* checkPendingPayments is in progress at any time.
C19_NoStackedTicks == Cardinality(TicksInProgress) <= 1

\* C20: even when the check of one payment waits on a call that never
\* returns, a tick that has started a batch goes on to the expiry sweep.
C20_SuspendsPerCheck ==
  \A l \in 1..MaxLoops : (loops[l].pc = "batch") ~> (loops[l].pc = "sweep")

\* the payments a tick of loop l has taken up: checks in flight and queued
TakenUp(l, inFlight, queue) ==
  {o.id : o \in {x \in inFlight : x.loop = l}}
    \cup {queue[i].id : i \in 1..Len(queue)}

\* C21: the listing of a tick takes up exactly the payments that are pending
\* and not yet expired at that time, however many they are.
C21_ListsEveryPending ==
  [][\A l \in 1..MaxLoops :
       (loops[l].pc = "list" /\ loops'[l].pc = "batch")
       => TakenUp(l, ops', loops'[l].queue)
            = {id \in Ids : /\ payments[id].status = "pending"
                            /\ payments[id].expires_at > now}]_vars

\* C22: at most batchSize checks of a tick are in flight at any time, and a
\* tick hands payments to checkSinglePayment only when none of its checks is
\* in flight.
C22_BoundedParallelism ==
  [][\A l \in 1..MaxLoops :
       /\ Cardinality({o \in ops' : o.loop = l}) <= batchSize
       /\ (\E o \in ops' \ ops : o.loop = l /\ o.pc = "resolve")
            => LoopOps(l) = {}]_vars

\* the second batch of a tick is in flight, the first has settled
C22_Witness ==
  \E l \in 1..MaxLoops :
    /\ loops[l].pc = "batch"
    /\ LoopOps(l) # {}
    /\ \A o \in LoopOps(l) : o.id > batchSize

\* C23: a cancel request whose statement reaches the database cancels the
\* payment and answers 200 when the stored status is pending; when it is
\* paid, expired, cancelled or failed it answers 404 and leaves the table as
\* it is. No cancel request changes a row that is not pending.
C23_CancelOnlyPending ==
  [][(lookup' # lookup /\ lookup'.fn = "cancel")
     => LET id == lookup'.id
        IN /\ payments' # payments => payments[id].status = "pending"
           /\ (lookup'.dbOk /\ payments[id].status = "pending")
                => /\ payments'[id].status = "cancelled"
                   /\ lookup'.response = 200
           /\ (lookup'.dbOk /\ payments[id].status \in FinalStatuses)
                => /\ payments' = payments
                   /\ lookup'.response = 404]_vars

\* a cancel request on a paid payment has been answered 404
C23_Witness ==
  /\ lookup.fn = "cancel"
  /\ lookup.before.status = "paid"
  /\ lookup.response = 404
  /\ payments[lookup.id].status = "paid"

\* C24: no step lowers the stored confirmations of a payment.
C24_ConfirmationsMonotone ==
  [][\A id \in Ids :
       payments'[id].confirmations >= payments[id].confirmations]_vars

\* C25: in every reachable state a payment whose actual_amount is set has
\* the stored status paid.
C25_ActualAmountOnlyWhenPaid ==
  \A id \in Ids :
    payments[id].actual_amount # Null => payments[id].status = "paid"

\* C26: any two distinct stored payment requests have distinct receiving
\* addresses.
C26_DistinctAddresses ==
  \A i \in Ids, j \in Ids :
    i # j => payments[i].address # payments[j].address

\* C27: no step changes the currency, amount, address, expires_at or
\* callback_url of a stored payment, nor the id under which it is stored.
C27_CreationFieldsFrozen ==
  [][\A id \in Ids :
       /\ id \in DOMAIN payments'
       /\ payments'[id].currency = payments[id].currency
       /\ payments'[id].amount = payments[id].amount
       /\ payments'[id].address = payments[id].address
       /\ payments'[id].expires_at = payments[id].expires_at
       /\ payments'[id].callback_url = payments[id].callback_url]_vars

\* a payment that the monitor or a route has marked paid and the
\* confirmation webhook has then updated
C27_Witness ==
  \E id \in Ids :
    /\ payments[id].status = "paid"
    /\ payments[id].actual_amount # Null
    /\ payments[id].confirmations = 2

\* a step in which a monitor loop runs its expiry sweep
SweepStep ==
  \E l \in DOMAIN loops : loops[l].pc = "sweep" /\ loops'[l].pc = "sleep"

\* C28: no step removes a stored payment, and the expiry sweep only updates:
\* every row is still stored after it, a row it changes is the same row with
\* status expired.
C28_NeverDeleted ==
  [][\A id \in Ids :
       /\ id \in DOMAIN payments'
       /\ (SweepStep /\ payments'[id] # payments[id])
            => payments'[id] = [payments[id] EXCEPT !.status = "expired"]]_vars

\* the sweep has run on an overdue payment: the row is stored, marked expired
C28_Witness ==
  \E id \in Ids :
    /\ payments[id].status = "expired"
    /\ payments[id].expires_at < now
    /\ ops = {}
    /\ \E l \in DOMAIN loops : loops[l].pc = "sleep"

\* C29: checkSinglePayment and forceCheckPayment go on to the ledger update
\* only with a snapshot whose status is paid.
C29_UpdateOnlyWhenPaid ==
  \A op \in ops :
    (op.kind \in {"tick", "force"} /\ op.pc = "write") => op.res.status = "paid"

\* callbacks of payment id made or about to be made
Notified(id) ==
  callbacks[id] + Cardinality({op \in ops : op.id = id /\ op.pc = "notify"})

\* C30: every callback and every status_change event of a payment follows a
\* committed update that set it to paid, and a handler whose update does not
\* commit logs no event and goes on to no callback.
C30_CommitBeforeNotify ==
  /\ [](\A id \in Ids :
          /\ Notified(id) <= paidAtWrites[id]
          /\ events[id] <= paidAtWrites[id])
  /\ [][\A op \in ops :
          (op.pc = "write" /\ op \notin ops' /\ paidAtWrites' = paidAtWrites)
            => /\ events' = events
               /\ callbacks' = callbacks
               /\ ~ \E o \in ops' : o.id = op.id /\ o.kind = op.kind
                                     /\ o.pc = "notify"]_vars

\* the monitor has committed paid, logged the event and made the callback
C30_Witness ==
  \E id \in Ids :
    /\ payments[id].status = "paid"
    /\ events[id] = 1
    /\ callbacks[id] = 1
    /\ paidAtWrites[id] = 1

\* C31: when a tick checks again a payment that an earlier tick left pending
\* and the latest provider report (the live snapshot of its address) covers
\* its amount, the check goes on to the update.
C31_DeferredRetry ==
  [][\A op \in ops :
       LET row == payments[op.id]
           key == <<row.currency, row.address>>
       IN (/\ op.kind = "tick" /\ op.pc = "resolve"
           /\ row.status = "pending"
           /\ lastCheck[op.id] # Null /\ lastCheck[op.id] < now
           /\ lastCheck'[op.id] = now
           /\ snapCache'[key].until > now
           /\ snapCache'[key].snap.balance >= row.amount)
          => \E o \in ops' : o.id = op.id /\ o.pc = "write"]_vars

\* C32: a tick, forceCheckPayment or GET /:id/status never changes the stored
\* status of a payment to paid at a time later than its expires_at.
C32_NoPaidAfterExpiry ==
  [][\A op \in ops :
       (/\ op.kind \in {"tick", "force", "status"} /\ op.pc = "write"
        /\ op \notin ops'
        /\ payments[op.id].status # "paid"
        /\ payments'[op.id].status = "paid")
       => now <= payments[op.id].expires_at]_vars

\* the answers of the endpoints a check function tries, a malformed balance
\* counted as a failed endpoint
WithoutMalformed(currency, responses) ==
  [i \in 1..ProviderCount(currency) |->
     IF responses[i] \in MalformedBalances THEN Null ELSE responses[i]]

\* C33: a check function builds no snapshot from a negative or non-numeric
\* balance: it returns what it would return had that endpoint failed (the
\* snapshot of the next endpoint it tries, an error snapshot if none is left).
C33_MalformedIsSkipped ==
  lookup.fn = "checkCurrencyPayment"
  => lookup.snap = checkCurrencyPayment(
                     lookup.currency,
                     WithoutMalformed(lookup.currency, lookup.responses),
                     lookup.expectedAmount)

\* The transaction identifier a snapshot carries: checkBitcoinPayment puts
\* the transactions of the address in `transactions` (one, "tx1", once the
\* address is funded); the other check functions carry none.
ObservedTx(currency, snap) ==
  IF currency = "BTC" /\ snap.balance # Null /\ snap.balance > 0
  THEN "tx1" ELSE "undefined"

\* statusResult.tx_hash: no check function sets a tx_hash field
SnapshotTxHash(snap) == "undefined"

\* tx_hash of callbackData in triggerPaymentCallback
CallbackTxHash(snap) == SnapshotTxHash(snap)

\* C34: when the monitor commits paid from a snapshot that carries a
\* transaction identifier, the stored tx_hash and the tx_hash of the callback
\* payload are that identifier.
C34_TxReference ==
  [][\A op \in ops :
       (/\ op.kind \in {"tick", "force"} /\ op.pc = "write"
        /\ op \notin ops'
        /\ paidAtWrites'[op.id] > paidAtWrites[op.id]
        /\ ObservedTx(payments[op.id].currency, op.res) # "undefined")
       => /\ payments'[op.id].tx_hash
               = ObservedTx(payments[op.id].currency, op.res)
          /\ CallbackTxHash(op.res)
               = ObservedTx(payments[op.id].currency, op.res)]_vars

\* C35: no live cache entry holds an error snapshot, a call of
\* checkPaymentStatus that returns an error snapshot leaves the cache as it
\* was, and no call is served an error snapshot from the cache.
C35_ErrorNeverCached ==
  /\ [](\A k \in CacheKeys :
          CacheHit(snapCache, k) => snapCache[k].snap.status # "error")
  /\ []((lookup.fn = "checkPaymentStatus" /\ lookup.hit)
          => lookup.snap.status # "error")
  /\ [][(/\ lookup'.fn = "checkPaymentStatus"
         /\ lookup'.snap.status = "error"
         /\ now' = now)
        => snapCache' = snapCache]_vars

\* a lookup has failed on its endpoints and nothing is cached for its address
C35_Witness ==
  /\ lookup.fn = "checkPaymentStatus"
  /\ lookup.snap.status = "error"
  /\ lookup.redisGet /\ ~lookup.hit
  /\ \A i \in DOMAIN lookup.responses : lookup.responses[i] = Null
  /\ ~CacheHit(snapCache, <<lookup.currency, deriveAddress(lookup.currency)>>)

\* C36: while the monitor is stopped no loop begins a tick, and unless
\* start() is called again every loop ends.
C36_StopEndsLoop ==
  /\ [][\A l \in DOMAIN loops :
          (~isRunning /\ ~isRunning')
            => ~(loops[l].pc # "list" /\ loops'[l].pc = "list")]_vars
  /\ (~isRunning) ~> (isRunning \/ \A l \in DOMAIN loops : loops[l].pc = "off")

\* the monitor has been stopped after a tick that checked a payment, and its
\* loop has ended
C36_Witness ==
  /\ ~isRunning
  /\ \A l \in DOMAIN loops : loops[l].pc = "off"
  /\ \E id \in Ids : lastCheck[id] # Null
  /\ ops = {}

\* ----------------------------------------------- WebSocketService, actions
\* everything but the WebSocket service
MonitorVars ==
  <<payments, now, snapCache, lastCheck, isRunning, loops, ops, callbacks,
    paidAtWrites, lookup, failedCallbacks, events, merchants>>

\* this.subscriptions.get(channel)?.delete(clientId) alone: an emptied
\* channel set stays in the map
RemoveFromChannel_KeepEmpty(subscriptions, channel, clientId) ==
  IF channel \notin DOMAIN subscriptions THEN subscriptions
  ELSE MapSet(subscriptions, channel, subscriptions[channel] \ {clientId})

\* this.subscriptions.get(channel)?.delete(clientId), then the channel is
\* deleted when its set is empty
RemoveFromChannel(subscriptions, channel, clientId) ==
  IF channel \notin DOMAIN subscriptions THEN subscriptions
  ELSE LET rest == subscriptions[channel] \ {clientId}
       IN IF rest = {} THEN MapDelete(subscriptions, channel)
          ELSE MapSet(subscriptions, channel, rest)

\* client.subscriptions.forEach(channel => ...)
RECURSIVE RemoveFromChannels(_, _, _)
RemoveFromChannels(subscriptions, channels, clientId) ==
  IF channels = {} THEN subscriptions
  ELSE LET channel == CHOOSE ch \in channels : TRUE
       IN RemoveFromChannels(
            RemoveFromChannel(subscriptions, channel, clientId),
            channels \ {channel}, clientId)

handleSubscription(ws, clientId, channel) ==
  IF clientId \notin DOMAIN ws.clients \/ channel = NoChannel THEN ws
  ELSE [ws EXCEPT
          !.clients[clientId].subscriptions = @ \cup {channel},
          !.subscriptions =
             MapSet(@, channel,
                    (IF channel \in DOMAIN @ THEN @[channel] ELSE {})
                      \cup {clientId})]

handleUnsubscription(ws, clientId, channel) ==
  IF clientId \notin DOMAIN ws.clients THEN ws
  ELSE IF channel # NoChannel
       THEN [ws EXCEPT
               !.clients[clientId].subscriptions = @ \ {channel},
               !.subscriptions = RemoveFromChannel(@, channel, clientId)]
       ELSE [ws EXCEPT
               !.clients[clientId].subscriptions = {},
               !.subscriptions =
                  RemoveFromChannels(@, ws.clients[clientId].subscriptions,
                                     clientId)]

handleDisconnection(ws, clientId) ==
  IF clientId \notin DOMAIN ws.clients THEN ws
  ELSE [ws EXCEPT
          !.subscriptions =
             RemoveFromChannels(@, ws.clients[clientId].subscriptions,
                                clientId),
          !.clients = MapDelete(@, clientId)]

\* this.clients.forEach((client, clientId) => this.handleDisconnection(...))
RECURSIVE DisconnectAll(_, _)
DisconnectAll(ws, clientIds) ==
  IF clientIds = {} THEN ws
  ELSE LET clientId == CHOOSE c \in clientIds : TRUE
       IN DisconnectAll(handleDisconnection(ws, clientId),
                        clientIds \ {clientId})

\* start(server)
wsStart ==
  /\ ~websocket.isRunning
  /\ websocket' = [websocket EXCEPT !.heartbeatInterval = TRUE,
                                    !.isRunning = TRUE]
  /\ UNCHANGED MonitorVars

\* the 'connection' event of the server; the socket carries no isAlive
\* property, the client record does
handleConnection ==
  /\ websocket.isRunning
  /\ websocket.connections < MaxClients
  /\ LET clientId == websocket.connections + 1
     IN websocket' =
          [websocket EXCEPT
             !.connections = clientId,
             !.clients = MapSet(@, clientId,
                                [subscriptions |-> {}, isAlive |-> TRUE]),
             !.sockets = MapSet(@, clientId,
                                [readyState |-> "open",
                                 isAlive |-> "undefined",
                                 pinged |-> FALSE, server |-> TRUE])]
  /\ UNCHANGED MonitorVars

\* the 'message' event of a socket
handleClientMessage ==
  /\ \E clientId \in DOMAIN websocket.sockets,
        type \in {"subscribe", "unsubscribe", "ping"},
        channel \in Channels \cup {NoChannel} :
       /\ websocket.sockets[clientId].readyState = "open"
       /\ websocket' =
            CASE type = "subscribe" ->
                   handleSubscription(websocket, clientId, channel)
              [] type = "unsubscribe" ->
                   handleUnsubscription(websocket, clientId, channel)
              [] OTHER -> websocket
  /\ UNCHANGED MonitorVars

\* the 'pong' event of a socket: the client answers a ping, or sends a
\* pong of its own accord
wsPong ==
  /\ \E clientId \in DOMAIN websocket.sockets :
       /\ websocket.sockets[clientId].readyState = "open"
       /\ websocket' =
            [websocket EXCEPT
               !.sockets[clientId].pinged = FALSE,
               !.clients = IF clientId \in DOMAIN @
                           THEN [@ EXCEPT ![clientId].isAlive = TRUE]
                           ELSE @]
  /\ UNCHANGED MonitorVars

\* the 'close' event of a socket, the client's doing or the end of a
\* termination
wsClose ==
  /\ \E clientId \in DOMAIN websocket.sockets :
       websocket' =
         [handleDisconnection(websocket, clientId) EXCEPT
            !.sockets = MapDelete(@, clientId)]
  /\ UNCHANGED MonitorVars

\* the 'error' event of a socket
wsError ==
  /\ \E clientId \in DOMAIN websocket.sockets :
       /\ websocket.sockets[clientId].readyState = "open"
       /\ clientId \in DOMAIN websocket.clients
       /\ websocket' = handleDisconnection(websocket, clientId)
  /\ UNCHANGED MonitorVars

\* one run of the heartbeat callback over this.wss.clients
startHeartbeat ==
  /\ websocket.heartbeatInterval
  /\ \E s \in DOMAIN websocket.sockets :
       websocket.sockets[s].server /\ websocket.sockets[s].readyState = "open"
  /\ websocket' =
       [websocket EXCEPT
          !.sockets =
             [s \in DOMAIN @ |->
                IF ~(@[s].server /\ @[s].readyState = "open") THEN @[s]
                ELSE IF @[s].isAlive # "true"
                     THEN [@[s] EXCEPT !.readyState = "terminated"]
                     ELSE [@[s] EXCEPT !.isAlive = "false",
                                       !.pinged = TRUE]]]
  /\ UNCHANGED MonitorVars

\* stop(): the sockets of the closed server stay open or are closed by it,
\* as the ws library decides
wsStop ==
  /\ websocket.isRunning
  /\ \E closes \in BOOLEAN :
       websocket' =
         [DisconnectAll(websocket, DOMAIN websocket.clients) EXCEPT
            !.heartbeatInterval = FALSE,
            !.isRunning = FALSE,
            !.sockets =
               [s \in DOMAIN @ |->
                  [@[s] EXCEPT
                     !.server = FALSE,
                     !.readyState = IF closes /\ @ = "open"
                                    THEN "closed" ELSE @]]]
  /\ UNCHANGED MonitorVars

WsNext ==
  \/ wsStart
  \/ handleConnection
  \/ handleClientMessage
  \/ wsPong
  \/ wsClose
  \/ wsError
  \/ startHeartbeat
  \/ wsStop

WsSpec == Init /\ [][WsNext]_vars

\* C37: the heartbeat terminates only a connection that left the previous
\* ping unanswered; a client that answers every ping is never terminated.
C37_OnlyUnansweredTerminated ==
  \A s \in DOMAIN websocket.sockets :
    websocket.sockets[s].readyState = "terminated"
      => websocket.sockets[s].pinged

\* C38: a client id is in the global set of a channel exactly when the
\* channel is in that client's own subscription set, the global map holds
\* no empty channel set, and a disconnected client is in no channel set.
C38_SubscriptionsConsistent ==
  /\ \A clientId \in ClientIds, channel \in Channels :
       (/\ channel \in DOMAIN websocket.subscriptions
        /\ clientId \in websocket.subscriptions[channel])
         <=> (/\ clientId \in DOMAIN websocket.clients
              /\ channel \in websocket.clients[clientId].subscriptions)
  /\ \A channel \in DOMAIN websocket.subscriptions :
       /\ channel \in Channels
       /\ websocket.subscriptions[channel] # {}
  /\ \A channel \in DOMAIN websocket.subscriptions :
       websocket.subscriptions[channel] \subseteq DOMAIN websocket.clients

\* C38: one client has disconnected after subscribing was possible, the
\* other is still subscribed to a channel the first one has left
C38_Witness ==
  /\ websocket.connections = MaxClients
  /\ \E gone \in ClientIds, here \in DOMAIN websocket.clients :
       /\ gone \notin DOMAIN websocket.clients
       /\ gone \notin DOMAIN websocket.sockets
       /\ websocket.clients[here].subscriptions # {}
       /\ \E channel \in DOMAIN websocket.subscriptions :
            websocket.subscriptions[channel] = {here}

\* ------------------------------------- cancel requests of two merchants
\* POST /api/v1/payments of a request authenticated as merchant
createPaymentAs(merchant) ==
  /\ Len(payments) < OwnerPayments
  /\ \E c \in ModelCurrencies :
       payments' = Append(payments,
                          NewRowOf(merchant, c, 1, MinExpiresIn, FALSE))
  /\ lastCheck' = Append(lastCheck, Null)
  /\ callbacks' = Append(callbacks, 0)
  /\ paidAtWrites' = Append(paidAtWrites, 0)
  /\ failedCallbacks' = Append(failedCallbacks, 0)
  /\ events' = Append(events, 0)
  /\ UNCHANGED <<merchants, websocket, lookup, now, snapCache, isRunning, loops, ops>>

OwnerNext ==
  \/ AdvanceClock
  \/ \E m \in Merchants : createPaymentAs(m)
  \/ \E m \in Merchants, id \in Ids : cancelRequest(m, id)

OwnerSpec == Init /\ [][OwnerNext]_vars

\* C39: a cancel request authenticated as merchant M changes a payment only
\* if the payment's merchant_id is M, and changes no other payment; a
\* request for another merchant's payment is answered 404 and leaves the
\* table as it is.
C39_CancelOwnPaymentOnly ==
  [][(lookup' # lookup /\ lookup'.fn = "cancel")
     => LET id == lookup'.id
            m == lookup'.merchant
        IN /\ payments' # payments => payments[id].merchant_id = m
           /\ \A j \in Ids : j # id => payments'[j] = payments[j]
           /\ (lookup'.dbOk /\ payments[id].merchant_id # m)
                => /\ payments' = payments
                   /\ lookup'.response = 404]_vars

\* a cancel request of merchant m2 for a pending payment of merchant m1 has
\* been answered 404 and the payment is still pending
C39_Witness ==
  /\ lookup.fn = "cancel"
  /\ lookup.merchant # lookup.before.merchant_id
  /\ lookup.before.status = "pending"
  /\ lookup.response = 404
  /\ payments[lookup.id].status = "pending"

\* ------------------------------------- registration and authentication
\* email addresses of the registration requests
Emails == {"a@x", "b@x"}
\* process.env.JWT_SECRET, and a secret that is not it
JwtSecret == "secret"
OtherSecret == "other"

\* jwt.sign(payload, secret)
jwtSign(payload, secret) == [payload |-> payload, signedWith |-> secret]

\* jwt.verify(token, secret): the payload, or an error
jwtVerify(token, secret) ==
  IF token.signedWith = secret THEN token.payload
  ELSE [merchantId |-> Null, email |-> "", type |-> "invalid"]

\* the n-th call of uuidv4() of the process: every call a new value
uuidv4(n) == n

\* a key that was not signed with JWT_SECRET
ForgedKey ==
  jwtSign([merchantId |-> uuidv4(1), email |-> "a@x", type |-> "merchant"],
          OtherSecret)

\* the API keys stored in the merchants table
IssuedKeys == {merchants.rows[i].api_key : i \in DOMAIN merchants.rows}

\* POST /api/merchants: 409 when the email is found, else a key is signed
\* with one uuidv4() as merchantId and the row is inserted with another as
\* id; the insert fails on a database error or on UNIQUE (email)
registerMerchant ==
  /\ merchants.uuids < 2 * MaxRegistrations
  /\ \E email \in Emails, checkOk \in BOOLEAN, insertOk \in BOOLEAN :
       LET taken == \E i \in DOMAIN merchants.rows :
                      merchants.rows[i].email = email
           existingMerchant == checkOk /\ taken
           apiKey == jwtSign([merchantId |-> uuidv4(merchants.uuids + 1),
                              email |-> email, type |-> "merchant"],
                             JwtSecret)
           row == [id |-> uuidv4(merchants.uuids + 2), email |-> email,
                   api_key |-> apiKey]
           inserted == insertOk /\ ~taken
       IN IF existingMerchant
          THEN /\ merchants' = merchants
               /\ lookup' = [fn |-> "register", email |-> email,
                             response |-> 409]
          ELSE /\ merchants' =
                    [rows |-> IF inserted THEN Append(merchants.rows, row)
                              ELSE merchants.rows,
                     uuids |-> merchants.uuids + 2]
               /\ lookup' = [fn |-> "register", email |-> email,
                             response |-> IF inserted THEN 201 ELSE 500]
  /\ UNCHANGED <<payments, now, snapCache, lastCheck, isRunning, loops, ops,
                 callbacks, paidAtWrites, failedCallbacks, events, websocket>>

\* verifyApiKey: req.merchant.id is the merchantId of a key with a valid
\* signature; no merchants row is read
verifyApiKey(apiKey) ==
  LET decoded == jwtVerify(apiKey, JwtSecret)
  IN IF decoded.type = "invalid" THEN [status |-> 401, id |-> Null]
     ELSE [status |-> 200, id |-> decoded.merchantId]

\* payments.merchant_id REFERENCES merchants(id)
MerchantExists(id) ==
  \E i \in DOMAIN merchants.rows : merchants.rows[i].id = id

\* POST /api/v1/payments behind verifyApiKey, sent with apiKey
createPaymentWith(apiKey) ==
  LET auth == verifyApiKey(apiKey)
      stored == auth.status = 200 /\ MerchantExists(auth.id)
  IN /\ Len(payments) < MaxPayments
     /\ \E c \in ModelCurrencies :
          /\ lookup' = [fn |-> "createPayment", merchant |-> auth.id,
                        currency |-> c,
                        response |-> IF auth.status = 401 THEN 401
                                     ELSE IF stored THEN 201 ELSE 500]
          /\ IF stored
             THEN /\ payments' = Append(payments,
                                   NewRowOf(auth.id, c, 1, MinExpiresIn, FALSE))
                  /\ lastCheck' = Append(lastCheck, Null)
                  /\ callbacks' = Append(callbacks, 0)
                  /\ paidAtWrites' = Append(paidAtWrites, 0)
                  /\ failedCallbacks' = Append(failedCallbacks, 0)
                  /\ events' = Append(events, 0)
             ELSE UNCHANGED <<payments, lastCheck, callbacks, paidAtWrites,
                              failedCallbacks, events>>
     /\ UNCHANGED <<merchants, websocket, now, snapCache, isRunning, loops,
                    ops>>

MerchantNext ==
  \/ registerMerchant
  \/ \E apiKey \in IssuedKeys \cup {ForgedKey} : createPaymentWith(apiKey)

MerchantSpec == Init /\ [][MerchantNext]_vars

\* C40: the merchantId that verifyApiKey decodes from the API key of a
\* registered merchant is the id of that merchant's stored row.
C40_KeyNamesStoredMerchant ==
  \A i \in DOMAIN merchants.rows :
    verifyApiKey(merchants.rows[i].api_key).id = merchants.rows[i].id

====
